---- MODULE Spec2Model ----
(***************************************************************************)
(* Model of src/rule.h: the three seccomp profile builders c_cpp_rules,    *)
(* python3_rules and general_rules, executed statement by statement        *)
(* against a libseccomp whose seccomp_init, seccomp_rule_add and           *)
(* seccomp_load may each fail, followed by the confined program issuing    *)
(* system calls that the loaded filter allows or kills.                    *)
(***************************************************************************)
EXTENDS Integers, Sequences, FiniteSets, TLC

VARIABLES
    pc,                 \* position inside the running builder, "idle" or "returned"
    profile,            \* which builder the caller invoked
    target,             \* char *target, as the scmp_datum_t the rules compare with
    allow_write_file,   \* bool allow_write_file
    allow_network,      \* bool allow_network
    ctx,                \* scmp_filter_ctx ctx: default action and rules added so far
    i,                  \* loop index of the whitelist / network / blacklist loops
    ret,                \* value returned by the builder
    failedAt,           \* which libseccomp call returned an error in this call
    loadCalls,          \* number of seccomp_load invocations in this call
    releaseCalls,       \* number of seccomp_release invocations in this call
    live,               \* contexts obtained from seccomp_init and not yet released
    calls,              \* number of builder calls made by the launcher
    loaded,             \* the filter installed in the kernel
    lastSys,            \* last system call issued by the confined program
    lastArgs,           \* its argument vector
    verdict             \* what the filter decided for it

vars == <<pc, profile, target, allow_write_file, allow_network, ctx, i, ret,
          failedAt, loadCalls, releaseCalls, live, calls, loaded,
          lastSys, lastArgs, verdict>>

(***************************************************************************)
(* Bounds                                                                  *)
(***************************************************************************)
MaxPath == 2
MaxArg == 5
MaxCalls == 2

Paths == 1..MaxPath
ArgValues == 0..MaxArg
ArgVectors == [0..2 -> ArgValues]

(***************************************************************************)
(* Program constants                                                       *)
(***************************************************************************)
LOAD_SECCOMP_FAILED == 1
O_WRONLY == 1
O_RDWR == 2

RECURSIVE BitAnd(_, _)
BitAnd(a, b) ==
    IF a = 0 \/ b = 0 THEN 0
    ELSE (IF a % 2 = 1 /\ b % 2 = 1 THEN 1 ELSE 0) + 2 * BitAnd(a \div 2, b \div 2)

RECURSIVE BitOr(_, _)
BitOr(a, b) ==
    IF a = 0 THEN b
    ELSE IF b = 0 THEN a
    ELSE (IF a % 2 = 1 \/ b % 2 = 1 THEN 1 ELSE 0) + 2 * BitOr(a \div 2, b \div 2)

syscalls_whitelist ==
    << "read", "fstat", "mmap", "mprotect", "munmap", "uname",
       "arch_prctl", "brk", "access", "exit_group", "close", "readlink",
       "sysinfo", "write", "writev", "lseek", "clock_gettime", "fcntl",
       "pread64", "faccessat", "newfstatat", "set_tid_address",
       "set_robust_list", "rseq", "prlimit64", "futex", "getrandom" >>


\* network table with its last entry lost
network_syscalls_short ==
    << "socket", "connect", "bind", "listen", "accept", "sendto",
       "recvfrom", "setsockopt", "getsockopt", "getpeername" >>

network_syscalls ==
    << "socket", "connect", "bind", "listen", "accept", "sendto",
       "recvfrom", "setsockopt", "getsockopt", "getpeername", "getsockname" >>


\* blacklist with its last entry lost
syscalls_blacklist_short == << "clone", "fork", "vfork" >>

syscalls_blacklist == << "clone", "fork", "vfork", "kill" >>

\* System calls the confined program may attempt: every one named in
\* rule.h and two that no rule names.
OtherSyscalls == { "unlink", "ptrace" }
Syscalls ==
    { "read", "fstat", "mmap", "mprotect", "munmap", "uname",
      "arch_prctl", "brk", "access", "exit_group", "close", "readlink",
      "sysinfo", "write", "writev", "lseek", "clock_gettime", "fcntl",
      "pread64", "faccessat", "newfstatat", "set_tid_address",
      "set_robust_list", "rseq", "prlimit64", "futex", "getrandom",
      "socket", "connect", "bind", "listen", "accept", "sendto",
      "recvfrom", "setsockopt", "getsockopt", "getpeername", "getsockname",
      "clone", "fork", "vfork", "kill",
      "execve", "open", "openat", "dup", "dup2", "dup3" }
        \cup OtherSyscalls

(***************************************************************************)
(* libseccomp values                                                       *)
(***************************************************************************)
NoCtx == [default |-> "NONE", rules |-> << >>]
NoFilter == NoCtx

\* SCMP_CMP (arg, op, datum_a, datum_b)
SCMP_CMP(arg, op, a, b) == [arg |-> arg, op |-> op, datum_a |-> a, datum_b |-> b]
SCMP_A0(op, a) == SCMP_CMP(0, op, a, 0)

\* one seccomp_rule_add request
Rule(action, sys, cmps) == [action |-> action, sys |-> sys, cmps |-> cmps]

\* does one argument comparison hold for the argument vector
CmpHolds(c, args) ==
    CASE c.op = "SCMP_CMP_EQ" -> args[c.arg] = c.datum_a
      [] c.op = "SCMP_CMP_NE" -> args[c.arg] # c.datum_a
      [] c.op = "SCMP_CMP_MASKED_EQ" ->
            BitAnd(args[c.arg], c.datum_a) = BitAnd(c.datum_b, c.datum_a)

RuleMatches(r, sys, args) ==
    /\ r.sys = sys
    /\ \A k \in 1..Len(r.cmps) : CmpHolds(r.cmps[k], args)

\* the action the filter takes for a system call: the action of the first
\* matching rule, the default action when no rule matches
Eval(f, sys, args) ==
    LET hits == { k \in 1..Len(f.rules) : RuleMatches(f.rules[k], sys, args) }
    IN  IF hits = {} THEN f.default
        ELSE f.rules[CHOOSE k \in hits : \A m \in hits : k <= m].action

(***************************************************************************)
(* The rules each builder requests, by source statement                    *)
(***************************************************************************)

\* execve allowed with no argument comparison
c_cpp_execve_rule_any(t) == Rule("ALLOW", "execve", << >>)

c_cpp_execve_rule(t) ==
    Rule("ALLOW", "execve", << SCMP_A0("SCMP_CMP_EQ", t) >>)


\* mask that tests the O_WRONLY bit only
c_cpp_open_ro_rule_wronly ==
    Rule("ALLOW", "open",
         << SCMP_CMP(1, "SCMP_CMP_MASKED_EQ", O_WRONLY, 0) >>)

c_cpp_open_ro_rule ==
    Rule("ALLOW", "open",
         << SCMP_CMP(1, "SCMP_CMP_MASKED_EQ", BitOr(O_WRONLY, O_RDWR), 0) >>)

c_cpp_openat_ro_rule ==
    Rule("ALLOW", "openat",
         << SCMP_CMP(2, "SCMP_CMP_MASKED_EQ", BitOr(O_WRONLY, O_RDWR), 0) >>)

c_cpp_write_rules == << "open", "dup", "dup2", "dup3" >>


\* comparison copied from c_cpp_rules without inverting it
general_execve_rule_eq(t) ==
    Rule("KILL", "execve", << SCMP_A0("SCMP_CMP_EQ", t) >>)

general_execve_rule(t) ==
    Rule("KILL", "execve", << SCMP_A0("SCMP_CMP_NE", t) >>)


\* openat rules that test argument 1, as the open rules do
general_open_rules_arg1 ==
    << Rule("KILL", "open",
            << SCMP_CMP(1, "SCMP_CMP_MASKED_EQ", O_WRONLY, O_WRONLY) >>),
       Rule("KILL", "open",
            << SCMP_CMP(1, "SCMP_CMP_MASKED_EQ", O_RDWR, O_RDWR) >>),
       Rule("KILL", "openat",
            << SCMP_CMP(1, "SCMP_CMP_MASKED_EQ", O_WRONLY, O_WRONLY) >>),
       Rule("KILL", "openat",
            << SCMP_CMP(1, "SCMP_CMP_MASKED_EQ", O_RDWR, O_RDWR) >>) >>

general_open_rules ==
    << Rule("KILL", "open",
            << SCMP_CMP(1, "SCMP_CMP_MASKED_EQ", O_WRONLY, O_WRONLY) >>),
       Rule("KILL", "open",
            << SCMP_CMP(1, "SCMP_CMP_MASKED_EQ", O_RDWR, O_RDWR) >>),
       Rule("KILL", "openat",
            << SCMP_CMP(2, "SCMP_CMP_MASKED_EQ", O_WRONLY, O_WRONLY) >>),
       Rule("KILL", "openat",
            << SCMP_CMP(2, "SCMP_CMP_MASKED_EQ", O_RDWR, O_RDWR) >>) >>

(***************************************************************************)
(* Initial state: no builder called, no filter installed                   *)
(***************************************************************************)
Init ==
    /\ pc = "idle"
    /\ profile = "none"
    /\ target = 1
    /\ allow_write_file = FALSE
    /\ allow_network = FALSE
    /\ ctx = NoCtx
    /\ i = 1
    /\ ret = 0
    /\ failedAt = "none"
    /\ loadCalls = 0
    /\ releaseCalls = 0
    /\ live = 0
    /\ calls = 0
    /\ loaded = NoFilter
    /\ lastSys = "none"
    /\ lastArgs = [k \in 0..2 |-> 0]
    /\ verdict = "NONE"

probe == <<lastSys, lastArgs, verdict>>
inputs == <<profile, target, allow_write_file, allow_network>>
history == <<loadCalls, releaseCalls, live, calls, loaded>>

(***************************************************************************)
(* The launcher invokes one builder                                        *)
(***************************************************************************)
Enter(p, t, aw, an, start) ==
    /\ pc = "idle"
    /\ calls < MaxCalls
    /\ calls' = calls + 1
    /\ profile' = p
    /\ target' = t
    /\ allow_write_file' = aw
    /\ allow_network' = an
    /\ pc' = start
    /\ ctx' = NoCtx
    /\ i' = 1
    /\ ret' = 0
    /\ failedAt' = "none"
    /\ loadCalls' = 0
    /\ releaseCalls' = 0
    /\ UNCHANGED <<live, loaded, probe>>

Call_c_cpp_rules ==
    \E t \in Paths, aw \in BOOLEAN, an \in BOOLEAN :
        Enter("c_cpp_rules", t, aw, an, "c_init")

Call_python3_rules ==
    \E t \in Paths : Enter("python3_rules", t, FALSE, FALSE, "p_body")

Call_general_rules ==
    \E t \in Paths, an \in BOOLEAN :
        Enter("general_rules", t, FALSE, an, "g_init")

(***************************************************************************)
(* Statements shared by the builders                                       *)
(***************************************************************************)

\* a failure path that returns 0
ReturnFailed_zero(step) ==
    /\ failedAt' = step
    /\ ret' = 0
    /\ pc' = "returned"

\* return LOAD_SECCOMP_FAILED; after the libseccomp call named by step failed
ReturnFailed(step) ==
    /\ failedAt' = step
    /\ ret' = LOAD_SECCOMP_FAILED
    /\ pc' = "returned"

\* ctx = seccomp_init (def); if (!ctx) return LOAD_SECCOMP_FAILED;
SeccompInit(at, def, next) ==
    /\ pc = at
    /\ \/ /\ ctx' = [default |-> def, rules |-> << >>]
          /\ live' = live + 1
          /\ pc' = next
          /\ UNCHANGED <<ret, failedAt>>
       \/ /\ ReturnFailed("init")
          /\ UNCHANGED <<ctx, live>>
    /\ UNCHANGED <<inputs, i, loadCalls, releaseCalls, calls, loaded, probe>>

\* if (seccomp_rule_add (ctx, ...) != 0) return LOAD_SECCOMP_FAILED;
RuleAdd(at, r, next, nexti) ==
    /\ pc = at
    /\ \/ /\ ctx' = [ctx EXCEPT !.rules = Append(@, r)]
          /\ pc' = next
          /\ i' = nexti
          /\ UNCHANGED <<ret, failedAt>>
       \/ /\ ReturnFailed("rule")
          /\ UNCHANGED <<ctx, i>>
    /\ UNCHANGED <<inputs, history, probe>>

\* if (seccomp_load (ctx) != 0) return LOAD_SECCOMP_FAILED;
SeccompLoad(at, next) ==
    /\ pc = at
    /\ loadCalls' = loadCalls + 1
    /\ \/ /\ loaded' = ctx
          /\ pc' = next
          /\ UNCHANGED <<ret, failedAt>>
       \/ /\ ReturnFailed("load")
          /\ UNCHANGED loaded
    /\ UNCHANGED <<inputs, ctx, i, releaseCalls, live, calls, probe>>

\* seccomp_release (ctx); return 0;
ReleaseAndReturn(at) ==
    /\ pc = at
    /\ releaseCalls' = releaseCalls + 1
    /\ live' = live - 1
    /\ ret' = 0
    /\ pc' = "returned"
    /\ UNCHANGED <<inputs, ctx, i, failedAt, loadCalls, calls, loaded, probe>>

\* a branch or loop exit that only moves control
Goto(at, cond, next) ==
    /\ pc = at
    /\ cond
    /\ pc' = next
    /\ i' = 1
    /\ UNCHANGED <<inputs, ctx, ret, failedAt, history, probe>>

(***************************************************************************)
(* c_cpp_rules                                                             *)
(***************************************************************************)
c_cpp_Init == SeccompInit("c_init", "KILL", "c_execve")

c_cpp_Execve == RuleAdd("c_execve", c_cpp_execve_rule(target), "c_whitelist", 1)

c_cpp_Whitelist ==
    /\ i <= Len(syscalls_whitelist)
    /\ RuleAdd("c_whitelist", Rule("ALLOW", syscalls_whitelist[i], << >>),
               "c_whitelist", i + 1)

c_cpp_WhitelistDone ==
    Goto("c_whitelist", i > Len(syscalls_whitelist),
         IF allow_network THEN "c_network" ELSE "c_write")

c_cpp_Network ==
    /\ i <= Len(network_syscalls)
    /\ RuleAdd("c_network", Rule("ALLOW", network_syscalls[i], << >>),
               "c_network", i + 1)

c_cpp_NetworkDone ==
    Goto("c_network", i > Len(network_syscalls), "c_write")

c_cpp_WriteBranch ==
    Goto("c_write", TRUE, IF ~allow_write_file THEN "c_ro_open" ELSE "c_rw")

c_cpp_ReadOnlyOpen == RuleAdd("c_ro_open", c_cpp_open_ro_rule, "c_ro_openat", 1)

c_cpp_ReadOnlyOpenat == RuleAdd("c_ro_openat", c_cpp_openat_ro_rule, "c_load", 1)

c_cpp_WriteAllowed ==
    /\ i <= Len(c_cpp_write_rules)
    /\ RuleAdd("c_rw", Rule("ALLOW", c_cpp_write_rules[i], << >>),
               IF i = Len(c_cpp_write_rules) THEN "c_load" ELSE "c_rw",
               IF i = Len(c_cpp_write_rules) THEN 1 ELSE i + 1)

c_cpp_Load == SeccompLoad("c_load", "c_release")

c_cpp_Release == ReleaseAndReturn("c_release")

(***************************************************************************)
(* python3_rules                                                           *)
(***************************************************************************)
python3_Return ==
    /\ pc = "p_body"
    /\ ret' = 0
    /\ pc' = "returned"
    /\ UNCHANGED <<inputs, ctx, i, failedAt, history, probe>>

(***************************************************************************)
(* general_rules                                                           *)
(***************************************************************************)
general_Init == SeccompInit("g_init", "ALLOW", "g_execve")

general_Execve == RuleAdd("g_execve", general_execve_rule(target), "g_blacklist", 1)

general_Blacklist ==
    /\ i <= Len(syscalls_blacklist)
    /\ RuleAdd("g_blacklist", Rule("KILL", syscalls_blacklist[i], << >>),
               "g_blacklist", i + 1)

general_BlacklistDone ==
    Goto("g_blacklist", i > Len(syscalls_blacklist), "g_open")

general_Open ==
    /\ i <= Len(general_open_rules)
    /\ RuleAdd("g_open", general_open_rules[i],
               IF i = Len(general_open_rules) THEN "g_network" ELSE "g_open",
               IF i = Len(general_open_rules) THEN 1 ELSE i + 1)

\* if (!allow_network) { }
general_NetworkBranch == Goto("g_network", TRUE, "g_load")

general_Load == SeccompLoad("g_load", "g_release")

general_Release == ReleaseAndReturn("g_release")

(***************************************************************************)
(* After the builder returned                                              *)
(***************************************************************************)
\* the launcher, having seen a failure, tries again
CallerRetries ==
    /\ pc = "returned"
    /\ ret # 0
    /\ calls < MaxCalls
    /\ pc' = "idle"
    /\ UNCHANGED <<inputs, ctx, i, ret, failedAt, history, probe>>

\* the launcher, having seen 0, runs the target, which issues a system
\* call; the installed filter (if any) decides it.  The filter is immutable
\* and keeps no state between calls, so one call per run covers them all.
Syscall ==
    /\ pc = "returned"
    /\ ret = 0
    /\ verdict = "NONE"
    /\ \E sys \in Syscalls, args \in ArgVectors :
        /\ lastSys' = sys
        /\ lastArgs' = args
        /\ verdict' = IF loaded = NoFilter THEN "ALLOW"
                      ELSE Eval(loaded, sys, args)
    /\ UNCHANGED <<pc, inputs, ctx, i, ret, failedAt, history>>

Next ==
    \/ Call_c_cpp_rules
    \/ Call_python3_rules
    \/ Call_general_rules
    \/ c_cpp_Init
    \/ c_cpp_Execve
    \/ c_cpp_Whitelist
    \/ c_cpp_WhitelistDone
    \/ c_cpp_Network
    \/ c_cpp_NetworkDone
    \/ c_cpp_WriteBranch
    \/ c_cpp_ReadOnlyOpen
    \/ c_cpp_ReadOnlyOpenat
    \/ c_cpp_WriteAllowed
    \/ c_cpp_Load
    \/ c_cpp_Release
    \/ python3_Return
    \/ general_Init
    \/ general_Execve
    \/ general_Blacklist
    \/ general_BlacklistDone
    \/ general_Open
    \/ general_NetworkBranch
    \/ general_Load
    \/ general_Release
    \/ CallerRetries
    \/ Syscall

Spec == Init /\ [][Next]_vars

TypeOK ==
    /\ pc \in STRING
    /\ live \in 0..MaxCalls
    /\ calls \in 0..MaxCalls
    /\ verdict \in {"NONE", "ALLOW", "KILL"}
    /\ ret \in {0, LOAD_SECCOMP_FAILED}

(***************************************************************************)
(* Properties                                                              *)
(***************************************************************************)
Builders == { "c_cpp_rules", "general_rules" }

\* the confined program has issued a system call under the named profile
Probed(p) == profile = p /\ verdict # "NONE"

\* access mode of an open/openat flags word: 0 read-only, else writing
AccessMode(flags) == flags % 4

\* the flags argument of the last open (argument 1) or openat (argument 2)
OpenFlags == IF lastSys = "open" THEN lastArgs[1] ELSE lastArgs[2]

\* C1: under the c_cpp_rules filter built for target, execve is allowed when
\* its first argument equals target and killed for every other first
\* argument, whatever allow_write_file and allow_network are.
C1_ExecveOnlyTarget ==
    (Probed("c_cpp_rules") /\ lastSys = "execve")
        => verdict = IF lastArgs[0] = target THEN "ALLOW" ELSE "KILL"

C1_Witness ==
    /\ Probed("c_cpp_rules")
    /\ lastSys = "execve"
    /\ lastArgs[0] = target
    /\ allow_network
    /\ verdict = "ALLOW"

\* C2: under c_cpp_rules with allow_write_file = FALSE, open and openat are
\* killed when the access mode is write-only or read-write and allowed when
\* it is read-only, for every flags value.
C2_ReadOnlyOpens ==
    (Probed("c_cpp_rules") /\ ~allow_write_file /\ lastSys \in {"open", "openat"})
        => verdict = IF AccessMode(OpenFlags) # 0 THEN "KILL" ELSE "ALLOW"

C2_Witness ==
    /\ Probed("c_cpp_rules")
    /\ ~allow_write_file
    /\ lastSys = "open"
    /\ lastArgs[1] = O_RDWR
    /\ verdict = "KILL"

\* C3: under c_cpp_rules with allow_write_file = TRUE, every open and openat
\* is allowed whatever its access mode, and dup, dup2 and dup3 are allowed.
C3_WriteOpensAllowed ==
    (Probed("c_cpp_rules") /\ allow_write_file
        /\ lastSys \in {"open", "openat", "dup", "dup2", "dup3"})
        => verdict = "ALLOW"

C4_NetworkCalls ==
    { "socket", "connect", "bind", "listen", "accept", "sendto", "recvfrom",
      "setsockopt", "getsockopt", "getpeername", "getsockname" }

\* C4: under c_cpp_rules each of the eleven socket calls is allowed for every
\* argument vector when allow_network = TRUE and killed when it is FALSE,
\* whatever allow_write_file is.
C4_NetworkGated ==
    (Probed("c_cpp_rules") /\ lastSys \in C4_NetworkCalls)
        => verdict = IF allow_network THEN "ALLOW" ELSE "KILL"

C4_Witness ==
    /\ Probed("c_cpp_rules")
    /\ lastSys = "getsockname"
    /\ allow_network
    /\ allow_write_file
    /\ verdict = "ALLOW"

\* C5: when c_cpp_rules or general_rules has returned, by any exit path, the
\* context it obtained from seccomp_init has been released exactly once and
\* no context is left allocated.
C5_ContextReleased ==
    (pc = "returned" /\ profile \in Builders)
        => /\ live = 0
           /\ failedAt # "init" => releaseCalls = 1

\* the rules a complete run of the builder requests, in order
UnconditionalRules(action, names) ==
    [k \in 1..Len(names) |-> Rule(action, names[k], << >>)]

CompleteRules ==
    IF profile = "c_cpp_rules"
    THEN << c_cpp_execve_rule(target) >>
            \o UnconditionalRules("ALLOW", syscalls_whitelist)
            \o (IF allow_network
                THEN UnconditionalRules("ALLOW", network_syscalls) ELSE << >>)
            \o (IF allow_write_file
                THEN UnconditionalRules("ALLOW", c_cpp_write_rules)
                ELSE << c_cpp_open_ro_rule, c_cpp_openat_ro_rule >>)
    ELSE << general_execve_rule(target) >>
            \o UnconditionalRules("KILL", syscalls_blacklist)
            \o general_open_rules

\* C6: in c_cpp_rules and general_rules a failed seccomp_init or
\* seccomp_rule_add ends the call with LOAD_SECCOMP_FAILED and seccomp_load is
\* not invoked; seccomp_load is invoked only on the complete rule set; every
\* failure returns the same code 1; 0 is returned only when no step failed
\* and the load installed the context.
C6_AbortOnFailure ==
    profile \in Builders =>
        /\ failedAt \in {"init", "rule"} => (pc \in {"returned", "idle"} /\ loadCalls = 0)
        /\ loadCalls > 0 => ctx.rules = CompleteRules
        /\ failedAt # "none" => ret = LOAD_SECCOMP_FAILED
        /\ (pc = "returned" /\ ret = 0)
              => (failedAt = "none" /\ loadCalls = 1 /\ loaded = ctx
                    /\ ctx.rules = CompleteRules)

C6_Witness ==
    /\ profile = "general_rules"
    /\ pc = "returned"
    /\ failedAt = "rule"
    /\ Len(ctx.rules) = 3
    /\ ret = LOAD_SECCOMP_FAILED
    /\ loadCalls = 0

\* C7: under the general_rules filter built for target, execve with a first
\* argument other than target is killed and execve with first argument
\* target is allowed, for either allow_network.
C7_FallbackExecve ==
    (Probed("general_rules") /\ lastSys = "execve")
        => verdict = IF lastArgs[0] # target THEN "KILL" ELSE "ALLOW"

C7_Witness ==
    /\ Probed("general_rules")
    /\ lastSys = "execve"
    /\ lastArgs[0] # target
    /\ lastArgs[0] \in Paths
    /\ verdict = "KILL"

C8_Blacklisted == { "clone", "fork", "vfork", "kill" }

\* C8: under general_rules clone, fork, vfork and kill are killed for every
\* argument vector and either allow_network, and a call that is not
\* blacklisted, not an execve of a non-target path and not an open/openat for
\* writing is allowed.
C8_FallbackBlacklist ==
    Probed("general_rules") =>
        /\ lastSys \in C8_Blacklisted => verdict = "KILL"
        /\ ( /\ lastSys \notin C8_Blacklisted
             /\ ~(lastSys = "execve" /\ lastArgs[0] # target)
             /\ ~(lastSys \in {"open", "openat"} /\ AccessMode(OpenFlags) # 0) )
              => verdict = "ALLOW"

C8_Witness ==
    /\ Probed("general_rules")
    /\ allow_network
    /\ lastSys = "kill"
    /\ verdict = "KILL"

\* C9: under general_rules, for either allow_network and every flags value,
\* open and openat are killed when the O_WRONLY or the O_RDWR bit is set in
\* the flags and allowed when neither is set.
C9_FallbackOpenWrite ==
    (Probed("general_rules") /\ lastSys \in {"open", "openat"})
        => verdict =
             IF (OpenFlags % 2 = 1) \/ ((OpenFlags \div 2) % 2 = 1)
             THEN "KILL" ELSE "ALLOW"

C9_Witness ==
    /\ Probed("general_rules")
    /\ lastSys = "openat"
    /\ lastArgs[2] = O_RDWR
    /\ lastArgs[1] = 0
    /\ verdict = "KILL"

\* lifecycle state of the current call
Phase ==
    IF failedAt # "none" THEN "Failed"
    ELSE IF loadCalls > 0 THEN "Loaded"
    ELSE IF ctx = NoCtx THEN "Uninitialized"
    ELSE IF ctx.rules = << >> THEN "ContextCreated"
    ELSE "RulesAccumulating"

\* C10: every builder call, python3_rules included, ends in Loaded or Failed,
\* and returns 0 exactly when it ended in Loaded, so 0 is never returned for
\* a call that loaded no filter.
C10_Lifecycle ==
    pc = "returned" =>
        /\ Phase \in {"Loaded", "Failed"}
        /\ ret = 0 <=> Phase = "Loaded"
        /\ ret = 0 => loaded # NoFilter
====
